---- MODULE Spec2Model ----
(***************************************************************************)
(* Model of the chat component library's stateful cores:                   *)
(*   - the useFileUpload hook (upload batch, per-file upload tasks) and    *)
(*     the ChatInput example component over it,                            *)
(*   - the streaming service (startStreaming line parser,                  *)
(*     reconnectWithBackoff) and the useStreaming hook over mockStreaming, *)
(*   - the useHistory hook over localStorage,                              *)
(*   - the helpers retry and chunk.                                        *)
(* The specifications share the variables: Spec (upload manager),          *)
(* SpecTransfers (upload manager, transfers that always succeed),          *)
(* SpecChatInput, SpecStream (startStreaming under reconnectWithBackoff),  *)
(* SpecHook (useStreaming sessions), SpecHistory, SpecRetry and SpecChunk. *)
(* Each keeps the other parts' variables fixed.                            *)
(***************************************************************************)
EXTENDS Integers, Sequences, FiniteSets, TLC

VARIABLES
    uploadedFiles,   \* useFileUpload: the React state (after all queued updaters)
    rendered,        \* useFileUpload: uploadedFiles as captured by the last render's closures
    uploadCounter,   \* useFileUpload: uploadCounterRef.current
    aborted,         \* set of AbortController ids whose signal is aborted
    tasks,           \* running processFileUpload invocations, in the order their sleep(100) timers fire
    retryCalls,      \* number of retryUpload calls made so far (bounded)
    lastCall,        \* the call that made the last step: its arguments and what it reported
                     \* (a cancelUpload that found nothing to cancel is not recorded)
    uploadCompleteCalls, \* the argument of every onUploadComplete call made so far, in order
    stream,          \* startStreaming: the text the server sends, one character per element
    sPc,             \* where reconnectWithBackoff / startStreaming stands
    attempt,         \* reconnectWithBackoff: the loop counter
    delayMs,         \* reconnectWithBackoff: delay
    elapsed,         \* total time spent in the backoff timers
    outcomes,        \* what the transport answered to each fetch so far
    pos,             \* how much of the stream reader.read() has handed over
    buffer,          \* startStreaming: buffer
    events,          \* the consumer callbacks invoked so far, in order
    sigAborted,      \* config.signal.aborted
    chunksAfterAbort, \* onChunk calls made after abort() returned
    sessions,        \* useStreaming: the mockStreaming runs started so far, oldest first
    abortControllerRef, \* useStreaming: index of the session whose controller the ref holds, 0 for null
    lastConfigRef,   \* useStreaming: the message of the last config, NoConfig for null
    isStreaming,     \* useStreaming: state
    error,           \* useStreaming: state, TRUE when an Error is stored
    retryCount,      \* useStreaming: retryCountRef.current
    lastRetry,       \* the retry() call that made the last step: what it found and did
    threads,         \* useHistory: the React state
    chatThreads,     \* localStorage: what getItem('chat_threads') returns
    saveDue,         \* useHistory: the save effect has not yet run for the current threads
    threadCounter,   \* number of thread ids created so far
    retryRun,        \* helpers.retry: options, loop counter and record of one invocation
    chunkRun         \* helpers.chunk: arguments, loop counter and chunks of one invocation

uploadVars == <<uploadedFiles, rendered, uploadCounter, aborted, tasks, retryCalls, lastCall,
               uploadCompleteCalls>>

streamVars == <<stream, sPc, attempt, delayMs, elapsed, outcomes, pos, buffer, events,
                sigAborted, chunksAfterAbort>>

hookVars == <<sessions, abortControllerRef, lastConfigRef, isStreaming, error, retryCount,
              lastRetry>>

historyVars == <<threads, chatThreads, saveDue, threadCounter>>

helperVars == <<historyVars, retryRun, chunkRun>>

vars == <<uploadVars, streamVars, hookVars, helperVars>>

(***************************************************************************)
(* Bounds of the model                                                     *)
(***************************************************************************)
maxFiles == 1        \* options.maxFiles of the modelled hook instance
MaxBatch == 2        \* longest file list handed to one uploadFiles call
MaxTasks == 2        \* candidate files and retryUpload calls handled by the instance
MaxLines == 3        \* newline-terminated lines in a stream
MaxStarts == 2       \* mockStreaming runs started on one useStreaming instance
MaxRetryOption == 3  \* largest maxRetries option passed to helpers.retry
MaxThreads == 2      \* createThread calls on one localStorage
MaxArray == 3        \* longest array passed to helpers.chunk

(***************************************************************************)
(* Program constants                                                       *)
(***************************************************************************)
MAX_FILE_SIZE == 5242880
MAX_FILES_ALLOWED == 5
ProgressStep == 10
ProgressMax == 100
maxRetries == 3
initialDelay == 1000
maxDelay == 10000
multiplier == 2
hookMaxRetries == 3
FixedChunks == 4
TemplateWords == 21

ALLOWED_FILE_TYPES == {"image/jpeg", "image/jpg", "image/png", "image/webp"}

allowedTypes == ALLOWED_FILE_TYPES

NoUrl == << >>
NoError == "undefined-error"
UploadFailedMessage == "Upload failed"

(***************************************************************************)
(* Candidate files: a png of exactly the maximum size, a webp one byte     *)
(* over the maximum, and a small pdf.                                      *)
(***************************************************************************)
SampleFiles ==
    { [name |-> "b.png",  type |-> "image/png",       size |-> MAX_FILE_SIZE],
      [name |-> "c.webp", type |-> "image/webp",      size |-> MAX_FILE_SIZE + 1],
      [name |-> "d.pdf",  type |-> "application/pdf", size |-> 1024] }

FileLists == UNION { [1..n -> SampleFiles] : n \in 1..MaxBatch }

\* validateFile with the size check off by one (>= for >): a file of exactly the maximum fails
validateFileOffByOne(file) ==
    IF file.size >= MAX_FILE_SIZE THEN [valid |-> FALSE, error |-> "too large"]
    ELSE IF file.type \notin ALLOWED_FILE_TYPES THEN [valid |-> FALSE, error |-> "invalid type"]
    ELSE [valid |-> TRUE, error |-> NoError]

\* helpers.ts validateFile: size first, then the type against ALLOWED_FILE_TYPES
validateFile(file) ==
    IF file.size > MAX_FILE_SIZE THEN [valid |-> FALSE, error |-> "too large"]
    ELSE IF file.type \notin ALLOWED_FILE_TYPES THEN [valid |-> FALSE, error |-> "invalid type"]
    ELSE [valid |-> TRUE, error |-> NoError]

\* the loop of uploadFiles over the candidates: type against allowedTypes, then validateFile
FileAccepted(file) == file.type \in allowedTypes /\ validateFile(file).valid

ValidFiles(files) == SelectSeq(files, FileAccepted)

\* errors[] of uploadFiles: one message per rejected candidate, in input order
FileErrors(files) ==
    LET bad == SelectSeq(files, LAMBDA f : ~FileAccepted(f))
    IN [i \in 1..Len(bad) |->
            [file |-> bad[i].name,
             error |-> IF bad[i].type \notin allowedTypes THEN "INVALID_FILE_TYPE"
                       ELSE validateFile(bad[i]).error]]

\* Array.prototype.slice(0, n)
Slice0(s, n) == IF n <= 0 THEN << >> ELSE SubSeq(s, 1, IF n < Len(s) THEN n ELSE Len(s))

\* { ...file, ...updates }: the keys of updates replace those of file
Merge(file, updates) ==
    [k \in DOMAIN file |-> IF k \in DOMAIN updates THEN updates[k] ELSE file[k]]

\* an updateFile that merges the updates into every entry of the batch
updateFileEveryEntry(prev, uploadId, updates) ==
    [i \in 1..Len(prev) |-> Merge(prev[i], updates)]

\* updateFile: map over prev, merging the updates into the entry with this id
updateFile(prev, uploadId, updates) ==
    [i \in 1..Len(prev) |->
        IF prev[i].uploadId = uploadId THEN Merge(prev[i], updates) ELSE prev[i]]

HasId(files, id) == \E i \in 1..Len(files) : files[i].uploadId = id

\* Array.prototype.find
Find(files, id) == files[CHOOSE i \in 1..Len(files) :
                          /\ files[i].uploadId = id
                          /\ \A j \in 1..(i - 1) : files[j].uploadId # id]

\* derived values of the hook (computed on the rendered state)
isUploading(files) == \E i \in 1..Len(files) : files[i].isUploading
hasFailedUploads(files) == \E i \in 1..Len(files) : files[i].uploadError # NoError

\* lastCall when the last step was a render or a step of an upload task
NoCall == [op |-> "none"]

(***************************************************************************)
(* Init: freshly mounted hook                                              *)
(***************************************************************************)
UploadInit ==
    /\ uploadedFiles = << >>
    /\ rendered = << >>
    /\ uploadCounter = 0
    /\ aborted = {}
    /\ tasks = << >>
    /\ retryCalls = 0
    /\ lastCall = NoCall
    /\ uploadCompleteCalls = << >>

\* no streaming request made
StreamIdle ==
    /\ stream = << >>
    /\ sPc = "idle"
    /\ attempt = 0
    /\ delayMs = initialDelay
    /\ elapsed = 0
    /\ outcomes = << >>
    /\ pos = 0
    /\ buffer = << >>
    /\ events = << >>
    /\ sigAborted = FALSE
    /\ chunksAfterAbort = 0

\* freshly mounted useStreaming
HookInit ==
    /\ sessions = << >>
    /\ abortControllerRef = 0
    /\ lastConfigRef = "null"
    /\ isStreaming = FALSE
    /\ error = FALSE
    /\ retryCount = 0
    /\ lastRetry = [prior |-> "null", outcome |-> "none"]

\* localStorage without the item 'chat_threads': getItem returns null
NoItem == [stored |-> FALSE, text |-> << >>]

\* freshly mounted useHistory (enableStorage on, no initialThreads) over an empty localStorage
HistoryInit ==
    /\ threads = << >>
    /\ chatThreads = NoItem
    /\ saveDue = TRUE
    /\ threadCounter = 0

\* no lastError yet, no value returned yet
Undefined == 0

\* helpers.retry and helpers.chunk not called
HelpersIdle ==
    /\ retryRun = [pc |-> "idle", maxRetries |-> 0, delay |-> 0, backoffMultiplier |-> 0,
                   i |-> 0, calls |-> << >>, slept |-> << >>, lastError |-> Undefined,
                   value |-> Undefined]
    /\ chunkRun = [pc |-> "idle", array |-> << >>, size |-> 0, i |-> 0, chunks |-> << >>]

Init == UploadInit /\ StreamIdle /\ HookInit /\ HistoryInit /\ HelpersIdle

\* processFileUpload up to its await, for each new entry in order: nothing is started for an
\* entry whose signal is already aborted; otherwise uploadFile registers its first sleep(100).
\* batch is the extendedFiles array of the uploadFiles call that awaits the tasks in
\* Promise.all, empty for a task started by retryUpload, which nothing awaits
StartTasks(extendedFiles, abortedNow, batch) ==
    LET started == SelectSeq(extendedFiles, LAMBDA f : f.ctl \notin abortedNow)
    IN  [i \in 1..Len(started) |->
            [file |-> started[i].file, uploadId |-> started[i].uploadId,
             ctl |-> started[i].ctl, next |-> 0, batch |-> batch]]

\* uploadFiles after its await: when task t is the last of its call to return, Promise.all
\* resolves and the call filters its own extendedFiles objects for the ones without
\* uploadError and with a cdnUrl; updateFile puts changed copies into the state and leaves
\* these objects as they were created. The result is the onUploadComplete call made, if any
AfterPromiseAll(t, running) ==
    LET successfulFiles ==
            SelectSeq(t.batch, LAMBDA f : f.uploadError = NoError /\ f.cdnUrl # NoUrl)
    IN  IF /\ t.batch # << >>
           /\ \A i \in 1..Len(running) : running[i].batch # t.batch
           /\ Len(successfulFiles) > 0
        THEN <<successfulFiles>>
        ELSE << >>

\* what the callbacks of one render read of an entry: every field but uploadProgress
View(files) ==
    [i \in 1..Len(files) |->
        [file |-> files[i].file, uploadId |-> files[i].uploadId,
         isUploading |-> files[i].isUploading, cdnUrl |-> files[i].cdnUrl,
         uploadError |-> files[i].uploadError, ctl |-> files[i].ctl]]

\* React re-renders: the callbacks are re-created over the current state
Render ==
    /\ rendered # View(uploadedFiles)
    /\ rendered' = View(uploadedFiles)
    /\ lastCall' = NoCall
    /\ UNCHANGED <<uploadedFiles, uploadCounter, aborted, tasks, retryCalls, uploadCompleteCalls,
                   streamVars, hookVars, helperVars>>

\* an identifier that numbers the files of one call, starting again with every call
generateUploadIdPerCall(counter, k) == k

\* generateUploadId, k-th call made by one uploadFiles: the ref is incremented and the id is
\* `upload_${Date.now()}_${uploadCounterRef.current}`; the counter stands for the id
generateUploadId(counter, k) == counter + k

\* uploadFiles(files): whole handler up to the first await inside processFileUpload
UploadFiles(files) ==
    LET currentCount == Len(rendered)
        validFiles == ValidFiles(files)
        errors == FileErrors(files)
        availableSlots == maxFiles - currentCount
        filesToUpload == Slice0(validFiles, availableSlots)
        n == Len(filesToUpload)
        extendedFiles == [i \in 1..n |->
            [file |-> filesToUpload[i],
             uploadId |-> generateUploadId(uploadCounter, i),
             isUploading |-> TRUE,
             uploadProgress |-> 0,
             cdnUrl |-> NoUrl,
             uploadError |-> NoError,
             ctl |-> [kind |-> "upload", n |-> uploadCounter + i]]]
    IN  /\ uploadCounter + retryCalls + Len(files) <= MaxTasks
        /\ IF currentCount >= maxFiles
           THEN /\ lastCall' = [op |-> "uploadFiles", files |-> files, currentCount |-> currentCount,
                              before |-> Len(uploadedFiles),
                              reported |-> <<"MAX_FILES_EXCEEDED">>, errors |-> << >>,
                              accepted |-> << >>]
                /\ UNCHANGED <<uploadedFiles, uploadCounter, tasks>>
           ELSE /\ lastCall' = [op |-> "uploadFiles", files |-> files, currentCount |-> currentCount,
                              before |-> Len(uploadedFiles),
                              reported |-> IF Len(errors) > 0 THEN <<"errors">> ELSE << >>,
                              errors |-> errors,
                              accepted |-> extendedFiles]
                /\ uploadedFiles' = uploadedFiles \o extendedFiles
                /\ uploadCounter' = uploadCounter + n
                /\ tasks' = tasks \o StartTasks(extendedFiles, aborted, extendedFiles)
        /\ UNCHANGED <<rendered, aborted, retryCalls, uploadCompleteCalls, streamVars, hookVars, helperVars>>

\* uploadFile's progress loop, one iteration before the last: sleep(100) ends, onProgress(progress)
\* runs updateFile, and the next sleep(100) is registered behind every pending one
TaskProgress ==
    /\ tasks # << >>
    /\ Head(tasks).next < ProgressMax
    /\ LET t == Head(tasks)
       IN  /\ uploadedFiles' = updateFile(uploadedFiles, t.uploadId,
                                          [uploadProgress |-> t.next])
           /\ tasks' = Append(Tail(tasks), [t EXCEPT !.next = t.next + ProgressStep])
    /\ lastCall' = NoCall
    /\ UNCHANGED <<rendered, uploadCounter, aborted, retryCalls, uploadCompleteCalls,
                   streamVars, hookVars, helperVars>>

\* `https://cdn.example.com/uploads/${generateId()}_${file.name}`: generateId() joins the
\* time in ms and seven random base-36 digits; its result is taken to differ from call to
\* call and stands here as the identity of the transfer that made the call
mockUrl(t) == <<"https://cdn.example.com/uploads/", t.ctl, t.file.name>>

\* a transfer that answers with the same URL every time
TaskSuccessFixedUrl ==
    /\ tasks # << >>
    /\ Head(tasks).next >= ProgressMax
    /\ LET t == Head(tasks)
       IN  uploadedFiles' = updateFile(uploadedFiles, t.uploadId,
                                      [cdnUrl |-> <<"https://cdn.example.com/uploads/">>,
                                       isUploading |-> FALSE,
                                       uploadProgress |-> ProgressMax])
    /\ tasks' = Tail(tasks)
    /\ uploadCompleteCalls' = uploadCompleteCalls \o AfterPromiseAll(Head(tasks), Tail(tasks))
    /\ lastCall' = NoCall
    /\ UNCHANGED <<rendered, uploadCounter, aborted, retryCalls, streamVars, hookVars, helperVars>>

\* the last iteration: onProgress(100), then uploadFile resolves and processFileUpload
\* stores the CDN URL in the same turn of the event loop
TaskSuccess ==
    /\ tasks # << >>
    /\ Head(tasks).next >= ProgressMax
    /\ LET t == Head(tasks)
       IN  uploadedFiles' = updateFile(uploadedFiles, t.uploadId,
                                      [cdnUrl |-> mockUrl(t), isUploading |-> FALSE,
                                       uploadProgress |-> ProgressMax])
    /\ tasks' = Tail(tasks)
    /\ uploadCompleteCalls' = uploadCompleteCalls \o AfterPromiseAll(Head(tasks), Tail(tasks))
    /\ lastCall' = NoCall
    /\ UNCHANGED <<rendered, uploadCounter, aborted, retryCalls, streamVars, hookVars, helperVars>>

\* a catch branch that puts the entry back into the batch when it is no longer there
TaskFailRestoringEntry ==
    /\ tasks # << >>
    /\ LET t == Head(tasks)
           failed == [file |-> t.file, uploadId |-> t.uploadId, isUploading |-> FALSE,
                      uploadProgress |-> 0, cdnUrl |-> NoUrl,
                      uploadError |-> UploadFailedMessage, ctl |-> t.ctl]
       IN  uploadedFiles' =
              IF HasId(uploadedFiles, t.uploadId)
              THEN updateFile(uploadedFiles, t.uploadId,
                              [isUploading |-> FALSE, uploadError |-> UploadFailedMessage])
              ELSE Append(uploadedFiles, failed)
    /\ tasks' = Tail(tasks)
    /\ uploadCompleteCalls' = uploadCompleteCalls \o AfterPromiseAll(Head(tasks), Tail(tasks))
    /\ lastCall' = NoCall
    /\ UNCHANGED <<rendered, uploadCounter, aborted, retryCalls, streamVars, hookVars, helperVars>>

\* the transfer fails (uploadFile rejects or answers without success): the catch branch
\* of processFileUpload, which also calls onUploadError
TaskFail ==
    /\ tasks # << >>
    /\ LET t == Head(tasks)
       IN  uploadedFiles' = updateFile(uploadedFiles, t.uploadId,
                                      [isUploading |-> FALSE, uploadError |-> UploadFailedMessage])
    /\ tasks' = Tail(tasks)
    /\ uploadCompleteCalls' = uploadCompleteCalls \o AfterPromiseAll(Head(tasks), Tail(tasks))
    /\ lastCall' = NoCall
    /\ UNCHANGED <<rendered, uploadCounter, aborted, retryCalls, streamVars, hookVars, helperVars>>

\* a filter that counts a negative index from the end, as Array.prototype.at does
FilterIndexFromEnd(prev, index) ==
    LET at == IF index < 0 THEN Len(prev) + index ELSE index
    IN  IF at >= 0 /\ at < Len(prev)
        THEN [k \in 1..(Len(prev) - 1) |-> IF k <= at THEN prev[k] ELSE prev[k + 1]]
        ELSE prev

\* Array.prototype.filter((_, i) => i !== index), index 0-based
FilterIndex(prev, index) ==
    IF index >= 0 /\ index < Len(prev)
    THEN [k \in 1..(Len(prev) - 1) |-> IF k <= index THEN prev[k] ELSE prev[k + 1]]
    ELSE prev

\* deleteFile(index), index 0-based as in the code
DeleteFile(index) ==
    LET inRange == index >= 0 /\ index < Len(uploadedFiles)
        fileToDelete == uploadedFiles[index + 1]
    IN  /\ aborted' = IF inRange /\ fileToDelete.isUploading
                      THEN aborted \cup {fileToDelete.ctl} ELSE aborted
        /\ uploadedFiles' = FilterIndex(uploadedFiles, index)
        /\ lastCall' = NoCall
        /\ UNCHANGED <<rendered, uploadCounter, tasks, retryCalls, uploadCompleteCalls,
                       streamVars, hookVars, helperVars>>

\* the entry retryUpload builds from the one it found in its closure's uploadedFiles:
\* { ...fileToRetry, isUploading, uploadError: undefined, uploadProgress, uploadAbortController };
\* cdnUrl is one of its keys only when the found entry had one
RetryEntry(fileToRetry, ctl) ==
    LET reset == [file |-> fileToRetry.file, uploadId |-> fileToRetry.uploadId,
                  isUploading |-> TRUE, uploadError |-> NoError, uploadProgress |-> 0,
                  ctl |-> ctl]
    IN  IF fileToRetry.cdnUrl # NoUrl
        THEN [k \in DOMAIN reset \cup {"cdnUrl"} |->
                 IF k = "cdnUrl" THEN fileToRetry.cdnUrl ELSE reset[k]]
        ELSE reset

\* retryUpload(uploadId)
RetryUpload(uploadId) ==
    LET ctl == [kind |-> "retry", n |-> retryCalls + 1]
        updatedFile == RetryEntry(Find(rendered, uploadId), ctl)
    IN  /\ uploadCounter + retryCalls < MaxTasks
        /\ retryCalls' = retryCalls + 1
        /\ lastCall' = [op |-> "retryUpload", uploadId |-> uploadId]
        /\ IF ~HasId(rendered, uploadId)
           THEN UNCHANGED <<uploadedFiles, tasks>>
           ELSE /\ uploadedFiles' = updateFile(uploadedFiles, uploadId, updatedFile)
                /\ tasks' = tasks \o StartTasks(<<updatedFile>>, aborted, << >>)
        /\ UNCHANGED <<rendered, uploadCounter, aborted, uploadCompleteCalls, streamVars,
                       hookVars, helperVars>>

\* cancelUpload that aborts the upload but forgets to drop the entry
CancelUploadKeepsEntry(uploadId) ==
    LET hit(f) == f.uploadId = uploadId /\ f.isUploading
    IN  /\ aborted' = aborted \cup
               {uploadedFiles[i].ctl : i \in {j \in 1..Len(uploadedFiles) : hit(uploadedFiles[j])}}
        /\ uploadedFiles' = updateFile(uploadedFiles, uploadId, [isUploading |-> FALSE])
        /\ lastCall' = IF \E i \in 1..Len(uploadedFiles) : hit(uploadedFiles[i])
                       THEN [op |-> "cancelUpload", uploadId |-> uploadId] ELSE NoCall
        /\ UNCHANGED <<rendered, uploadCounter, tasks, retryCalls, uploadCompleteCalls,
                       streamVars, hookVars, helperVars>>

\* cancelUpload(uploadId)
CancelUpload(uploadId) ==
    LET hit(f) == f.uploadId = uploadId /\ f.isUploading
    IN  /\ aborted' = aborted \cup
               {uploadedFiles[i].ctl : i \in {j \in 1..Len(uploadedFiles) : hit(uploadedFiles[j])}}
        /\ uploadedFiles' = SelectSeq(uploadedFiles, LAMBDA f : ~hit(f))
        /\ lastCall' = IF \E i \in 1..Len(uploadedFiles) : hit(uploadedFiles[i])
                       THEN [op |-> "cancelUpload", uploadId |-> uploadId] ELSE NoCall
        /\ UNCHANGED <<rendered, uploadCounter, tasks, retryCalls, uploadCompleteCalls,
                       streamVars, hookVars, helperVars>>

\* clearAllFiles(): aborts what its closure saw uploading, then empties the state
ClearAllFiles ==
    /\ aborted' = aborted \cup
           {rendered[i].ctl : i \in {j \in 1..Len(rendered) : rendered[j].isUploading}}
    /\ uploadedFiles' = << >>
    /\ lastCall' = NoCall
    /\ UNCHANGED <<rendered, uploadCounter, tasks, retryCalls, uploadCompleteCalls,
                   streamVars, hookVars, helperVars>>

\* identifiers and indexes a caller may pass, present or not
UploadIds == 1..(MaxTasks + 1)
Indexes == (0 - 1)..MaxTasks

Next ==
    \/ Render
    \/ \E files \in FileLists : UploadFiles(files)
    \/ TaskProgress
    \/ TaskSuccess
    \/ TaskFail
    \/ \E index \in Indexes : DeleteFile(index)
    \/ \E uploadId \in UploadIds : RetryUpload(uploadId)
    \/ \E uploadId \in UploadIds : CancelUpload(uploadId)
    \/ ClearAllFiles

Spec == Init /\ [][Next]_vars

\* the upload manager with a transport that always succeeds and a caller that never deletes,
\* cancels or clears; the sleep(100) timers of the transfers always fire in the end
NextTransfers ==
    \/ Render
    \/ \E files \in FileLists : UploadFiles(files)
    \/ TaskProgress
    \/ TaskSuccess
    \/ \E uploadId \in UploadIds : RetryUpload(uploadId)

SpecTransfers ==
    Init /\ [][NextTransfers]_vars /\ WF_vars(TaskProgress) /\ WF_vars(TaskSuccess)

(***************************************************************************)
(* ChatInput over useFileUpload.  The component calls uploadFiles (through *)
(* handleFileInput and handlePaste) and deleteFile from DOM event          *)
(* handlers; React renders the state change of such a handler before the   *)
(* next task runs, while the change made by a timer of an upload task is   *)
(* rendered by a later task, so that a submit can come first.              *)
(***************************************************************************)

\* the render caused by the last DOM event handler has been made: the handlers are the only
\* steps that add or remove entries
Flushed ==
    [i \in 1..Len(rendered) |-> rendered[i].uploadId]
       = [i \in 1..Len(uploadedFiles) |-> uploadedFiles[i].uploadId]

\* handleFileInput and handlePaste: uploadFiles with the files of the event
ChatFileInput(files) == Flushed /\ UploadFiles(files)

\* FilePreview's onDelete
ChatDelete(index) == Flushed /\ DeleteFile(index)

\* a handleSubmit without the isUploading test
HandleSubmitWhileUploading(queryEmpty, disabled) ==
    /\ Flushed
    /\ LET successfulFiles ==
               SelectSeq(rendered, LAMBDA file : /\ file.cdnUrl # NoUrl
                                                 /\ file.uploadError = NoError
                                                 /\ ~file.isUploading)
       IN  lastCall' = IF queryEmpty \/ disabled
                       THEN [op |-> "handleSubmit", invoked |-> FALSE, files |-> << >>]
                       ELSE [op |-> "handleSubmit", invoked |-> TRUE,
                             files |-> successfulFiles]
    /\ UNCHANGED <<uploadedFiles, rendered, uploadCounter, aborted, tasks, retryCalls,
                   uploadCompleteCalls, streamVars, hookVars, helperVars>>

\* ChatInput.handleSubmit on the closure of the last render: returns when the query is blank,
\* an upload is running or the input is disabled, otherwise onSubmit(query, successfulFiles)
HandleSubmit(queryEmpty, disabled) ==
    /\ Flushed
    /\ LET successfulFiles ==
               SelectSeq(rendered, LAMBDA file : /\ file.cdnUrl # NoUrl
                                                 /\ file.uploadError = NoError
                                                 /\ ~file.isUploading)
       IN  lastCall' = IF queryEmpty \/ isUploading(rendered) \/ disabled
                       THEN [op |-> "handleSubmit", invoked |-> FALSE, files |-> << >>]
                       ELSE [op |-> "handleSubmit", invoked |-> TRUE,
                             files |-> successfulFiles]
    /\ UNCHANGED <<uploadedFiles, rendered, uploadCounter, aborted, tasks, retryCalls,
                   uploadCompleteCalls, streamVars, hookVars, helperVars>>

NextChatInput ==
    \/ Render
    \/ \E files \in FileLists : ChatFileInput(files)
    \/ \E index \in Indexes : ChatDelete(index)
    \/ Flushed /\ TaskProgress
    \/ Flushed /\ TaskSuccess
    \/ Flushed /\ TaskFail
    \/ \E queryEmpty \in BOOLEAN, disabled \in BOOLEAN : HandleSubmit(queryEmpty, disabled)

SpecChatInput == Init /\ [][NextChatInput]_vars

(***************************************************************************)
(* The streaming service: startStreaming run by reconnectWithBackoff.      *)
(* Text is a sequence of one-character strings.                            *)
(***************************************************************************)
NL == "\n"
Whitespace == {" ", "\r", "\t"}
DataPrefix == <<"d", "a", "t", "a", ":">>

\* the chunk types of the sample records: streaming text, error, thread_id
ChunkKinds == {"s", "e", "t"}

\* lines a server may send (without their newline): a prefixed error record, a bare
\* thread_id record with a carriage return, a streaming record cut short, an empty line
SampleLines ==
    { <<"d", "a", "t", "a", ":", " ", "{", "e", "}">>,
      <<"{", "t", "}", "\r">>,
      <<"{", "s">>,
      << >> }

\* what may follow the last newline: nothing, or a record without its newline
SampleTails == { << >>, <<"{", "e", "}">> }

RECURSIVE Flatten(_)
Flatten(lines) ==
    IF lines = << >> THEN << >> ELSE Head(lines) \o <<NL>> \o Flatten(Tail(lines))

Streams ==
    { Flatten(ls) \o tail :
        ls \in UNION { [1..n -> SampleLines] : n \in 0..MaxLines }, tail \in SampleTails }

\* String.prototype.split('\n'): always at least one piece
RECURSIVE Split(_)
Split(text) ==
    IF text = << >> THEN << << >> >>
    ELSE LET rest == Split(Tail(text))
         IN  IF Head(text) = NL THEN << << >> >> \o rest
             ELSE << <<Head(text)>> \o Head(rest) >> \o Tail(rest)

\* lines.pop() || '' with the partial line dropped instead of kept
LinesPopDropped(lines) == << >>

\* lines.pop() || '': the piece after the last newline goes back to the buffer
LinesPop(lines) == lines[Len(lines)]

\* a loop that also runs over the piece after the last newline
CompleteLinesWithPartial(lines) == lines

\* lines after pop(): the newline-terminated pieces
CompleteLines(lines) == SubSeq(lines, 1, Len(lines) - 1)

RECURSIVE TrimStart(_)
TrimStart(text) ==
    IF text # << >> /\ Head(text) \in Whitespace THEN TrimStart(Tail(text)) ELSE text

RECURSIVE TrimEnd(_)
TrimEnd(text) ==
    IF text # << >> /\ text[Len(text)] \in Whitespace
    THEN TrimEnd(SubSeq(text, 1, Len(text) - 1)) ELSE text

\* String.prototype.trim
Trim(text) == TrimEnd(TrimStart(text))

\* line.replace(/^data:\s*/, '')
CleanLine(line) ==
    IF Len(line) >= Len(DataPrefix) /\ SubSeq(line, 1, Len(DataPrefix)) = DataPrefix
    THEN TrimStart(SubSeq(line, Len(DataPrefix) + 1, Len(line)))
    ELSE line

\* JSON.parse on the sample grammar: optional whitespace around one object {kind}
JsonParse(text) ==
    LET t == Trim(text)
    IN  IF Len(t) = 3 /\ t[1] = "{" /\ t[3] = "}" /\ t[2] \in ChunkKinds
        THEN [ok |-> TRUE, type |-> t[2]]
        ELSE [ok |-> FALSE, type |-> "SyntaxError"]

OnChunk(type) == [cb |-> "onChunk", type |-> type]
OnThreadIdChange == [cb |-> "onThreadIdChange", type |-> "t"]
OnComplete == [cb |-> "onComplete", type |-> "-"]
OnError == [cb |-> "onError", type |-> "-"]

\* the loop body with the parse failure reported to the consumer instead of skipped
LineEventsReportingBadLine(line) ==
    IF Trim(line) = << >> THEN << >>
    ELSE LET chunk == JsonParse(CleanLine(line))
         IN  IF ~chunk.ok THEN <<OnError>>
             ELSE IF chunk.type = "t" THEN <<OnChunk(chunk.type), OnThreadIdChange>>
             ELSE <<OnChunk(chunk.type)>>

\* the body of the loop over the complete lines: the callbacks one line causes
LineEvents(line) ==
    IF Trim(line) = << >> THEN << >>
    ELSE LET chunk == JsonParse(CleanLine(line))
         IN  IF ~chunk.ok THEN << >>
             ELSE IF chunk.type = "t" THEN <<OnChunk(chunk.type), OnThreadIdChange>>
             ELSE <<OnChunk(chunk.type)>>

RECURSIVE LinesEvents(_)
LinesEvents(lines) ==
    IF lines = << >> THEN << >> ELSE LineEvents(Head(lines)) \o LinesEvents(Tail(lines))

Chunks(evs) == SelectSeq(evs, LAMBDA e : e.cb = "onChunk")

MinOf(a, b) == IF a < b THEN a ELSE b

\* reconnectWithBackoff(config, {}) is called: the first startStreaming issues its fetch
StartRequest(text) ==
    /\ sPc = "idle"
    /\ stream' = text
    /\ sPc' = "fetch"
    /\ UNCHANGED <<attempt, delayMs, elapsed, outcomes, pos, buffer, events, sigAborted,
                   chunksAfterAbort, uploadVars, hookVars, helperVars>>

\* fetch rejects, answers with a non-ok status or without a body: startStreaming's catch calls
\* onError. When onError itself throws, startStreaming rejects and reconnectWithBackoff's
\* catch runs: it waits for the backoff timer, or after the last attempt calls onError again.
FetchFails(onErrorThrows) ==
    /\ sPc = "fetch"
    /\ ~sigAborted
    /\ outcomes' = Append(outcomes, "fail")
    /\ IF ~onErrorThrows
       THEN /\ events' = Append(events, OnError)
            /\ sPc' = "returned"
            /\ UNCHANGED attempt
       ELSE IF attempt < maxRetries - 1
       THEN /\ events' = Append(events, OnError)
            /\ sPc' = "backoff"
            /\ UNCHANGED attempt
       ELSE /\ events' = events \o <<OnError, OnError>>
            /\ sPc' = "exhausted"
            /\ attempt' = attempt + 1
    /\ UNCHANGED <<stream, delayMs, elapsed, pos, buffer, sigAborted, chunksAfterAbort,
                   uploadVars, hookVars, helperVars>>

\* a backoff that multiplies the delay before waiting instead of after
BackoffElapsedMultipliedFirst ==
    /\ sPc = "backoff"
    /\ elapsed' = elapsed + MinOf(delayMs * multiplier, maxDelay)
    /\ delayMs' = MinOf(delayMs * multiplier, maxDelay)
    /\ attempt' = attempt + 1
    /\ sPc' = "fetch"
    /\ UNCHANGED <<stream, outcomes, pos, buffer, events, sigAborted, chunksAfterAbort,
                   uploadVars, hookVars, helperVars>>

\* the backoff timer fires: delay = Math.min(delay * multiplier, maxDelay), next attempt
BackoffElapsed ==
    /\ sPc = "backoff"
    /\ elapsed' = elapsed + delayMs
    /\ delayMs' = MinOf(delayMs * multiplier, maxDelay)
    /\ attempt' = attempt + 1
    /\ sPc' = "fetch"
    /\ UNCHANGED <<stream, outcomes, pos, buffer, events, sigAborted, chunksAfterAbort,
                   uploadVars, hookVars, helperVars>>

\* fetch answers ok with a body: the read loop starts with an empty buffer
FetchOk ==
    /\ sPc = "fetch"
    /\ ~sigAborted
    /\ outcomes' = Append(outcomes, "ok")
    /\ sPc' = "read"
    /\ pos' = 0
    /\ buffer' = << >>
    /\ UNCHANGED <<stream, attempt, delayMs, elapsed, events, sigAborted, chunksAfterAbort,
                   uploadVars, hookVars, helperVars>>

\* reader.read() hands over the next n characters; the consumer may call abort() from inside
\* the a-th onChunk of this fragment (a = 0: it does not)
ReadFragment(n, a) ==
    /\ sPc = "read"
    /\ ~sigAborted
    /\ n \in 1..(Len(stream) - pos)
    /\ LET lines == Split(buffer \o SubSeq(stream, pos + 1, pos + n))
           new == LinesEvents(CompleteLines(lines))
           count == Len(Chunks(new))
       IN  /\ a \in 0..count
           /\ buffer' = LinesPop(lines)
           /\ events' = events \o new
           /\ sigAborted' = (a > 0)
           /\ chunksAfterAbort' = IF a > 0 THEN count - a ELSE chunksAfterAbort
    /\ pos' = pos + n
    /\ UNCHANGED <<stream, sPc, attempt, delayMs, elapsed, outcomes, uploadVars, hookVars, helperVars>>

\* end-of-stream treated as a failure when no record was received before it
ReadDoneNeedingRecord ==
    /\ sPc = "read"
    /\ ~sigAborted
    /\ pos = Len(stream)
    /\ events' = Append(events, IF Chunks(events) = << >> THEN OnError ELSE OnComplete)
    /\ sPc' = "returned"
    /\ UNCHANGED <<stream, attempt, delayMs, elapsed, outcomes, pos, buffer, sigAborted,
                   chunksAfterAbort, uploadVars, hookVars, helperVars>>

\* reader.read() answers done: onComplete, and startStreaming returns
ReadDone ==
    /\ sPc = "read"
    /\ ~sigAborted
    /\ pos = Len(stream)
    /\ events' = Append(events, OnComplete)
    /\ sPc' = "returned"
    /\ UNCHANGED <<stream, attempt, delayMs, elapsed, outcomes, pos, buffer, sigAborted,
                   chunksAfterAbort, uploadVars, hookVars, helperVars>>

\* fetch or reader.read() rejects with AbortError: startStreaming returns without a callback
AbortObserved ==
    /\ sPc \in {"fetch", "read"}
    /\ sigAborted
    /\ sPc' = "returned"
    /\ UNCHANGED <<stream, attempt, delayMs, elapsed, outcomes, pos, buffer, events, sigAborted,
                   chunksAfterAbort, uploadVars, hookVars, helperVars>>

\* abort() called by the application while the request, a read or a backoff timer is pending
AbortStream ==
    /\ sPc \in {"fetch", "read", "backoff"}
    /\ ~sigAborted
    /\ sigAborted' = TRUE
    /\ UNCHANGED <<stream, sPc, attempt, delayMs, elapsed, outcomes, pos, buffer, events,
                   chunksAfterAbort, uploadVars, hookVars, helperVars>>

StreamNext ==
    \/ \E text \in Streams : StartRequest(text)
    \/ \E onErrorThrows \in BOOLEAN : FetchFails(onErrorThrows)
    \/ BackoffElapsed
    \/ FetchOk
    \/ \E n \in 1..(Len(stream) - pos), a \in 0..MaxLines : ReadFragment(n, a)
    \/ ReadDone
    \/ AbortObserved
    \/ AbortStream

SpecStream == Init /\ [][StreamNext]_vars

(***************************************************************************)
(* The useStreaming hook over mockStreaming.  A session is one             *)
(* mockStreaming run: while it runs, run.step counts the onChunk calls it   *)
(* has made and it waits in delay(ms, signal) between two calls; once it   *)
(* has returned only its final state is kept; run.afterAbort tells whether *)
(* the last onChunk call was made with the signal already aborted.  The    *)
(* abort listener of a delay                                               *)
(* is added when the delay starts, so it fires only for a signal that was  *)
(* not yet aborted then: an abort made from inside the session's own       *)
(* callback, between two delays, is seen by no later delay.                *)
(***************************************************************************)
Messages == {"hello", "again"}
NoConfig == "null"

\* no retry() call made the last step
NoRetry == [prior |-> NoConfig, outcome |-> "none"]

\* the locals of a mockStreaming run that has returned
NoRun == [message |-> NoConfig, step |-> 0, afterAbort |-> FALSE]

\* message.split(' ').length of the sample messages, one word each
WordCount(message) == Cardinality({message})

\* onChunk calls of one complete mockStreaming run: the four fixed chunks, then one per word
\* of the response template with the message in it
TotalChunks(message) == FixedChunks + TemplateWords + WordCount(message)

HookState ==
    [sessions |-> sessions, ref |-> abortControllerRef, last |-> lastConfigRef,
     isStreaming |-> isStreaming, error |-> error, retryCount |-> retryCount]

SetHook(h) ==
    /\ sessions' = h.sessions
    /\ abortControllerRef' = h.ref
    /\ lastConfigRef' = h.last
    /\ isStreaming' = h.isStreaming
    /\ error' = h.error
    /\ retryCount' = h.retryCount

\* controller.abort() on a session's signal: a delay that is pending with its listener armed
\* rejects with AbortError and mockStreaming returns without a callback; when the call comes
\* from inside the session's own callback no delay is pending and the run goes on
AbortSession(sess, inOwnCallback) ==
    IF sess.state = "delay" /\ ~sess.sig /\ ~inOwnCallback
    THEN [sess EXCEPT !.sig = TRUE, !.state = "aborted", !.run = NoRun]
    ELSE [sess EXCEPT !.sig = TRUE]

\* abortControllerRef.current.abort() when the ref is set
AbortRef(h, caller) ==
    IF h.ref = 0 THEN h.sessions
    ELSE [h.sessions EXCEPT ![h.ref] = AbortSession(h.sessions[h.ref], h.ref = caller)]

NewSession(h, config) ==
    [state |-> "delay", sig |-> FALSE,
     run |-> [message |-> config, step |-> 0, afterAbort |-> FALSE],
     startedWhileOpen |-> \E i \in 1..Len(h.sessions) : h.sessions[i].state = "delay"]

\* startStream that forgets to stop the existing stream
startStreamKeepingOld(h, config, caller) ==
    [h EXCEPT !.sessions = Append(h.sessions, NewSession(h, config)),
              !.ref = Len(h.sessions) + 1,
              !.last = config,
              !.isStreaming = TRUE,
              !.error = FALSE]

\* startStream(config), up to the first await of mockStreaming; caller is the session whose
\* callback makes the call, 0 when the application calls between two timers
startStream(h, config, caller) ==
    [h EXCEPT !.sessions = Append(AbortRef(h, caller), NewSession(h, config)),
              !.ref = Len(h.sessions) + 1,
              !.last = config,
              !.isStreaming = TRUE,
              !.error = FALSE]

\* stopStream()
stopStream(h, caller) ==
    [h EXCEPT !.sessions = AbortRef(h, caller),
              !.ref = 0,
              !.isStreaming = FALSE,
              !.retryCount = 0]

\* handleComplete
handleComplete(h) ==
    [h EXCEPT !.isStreaming = FALSE, !.error = FALSE, !.retryCount = 0]

\* handleError, enableRetry left at its default true
handleError(h) ==
    [h EXCEPT !.isStreaming = FALSE, !.error = TRUE,
              !.retryCount = IF h.retryCount < hookMaxRetries THEN h.retryCount + 1
                             ELSE h.retryCount]

\* the application calls startStream(config)
StartStreamCall(config) ==
    /\ Len(sessions) < MaxStarts
    /\ SetHook(startStream(HookState, config, 0))
    /\ lastRetry' = NoRetry
    /\ UNCHANGED <<uploadVars, streamVars, helperVars>>

\* the application calls stopStream()
StopStreamCall ==
    /\ SetHook(stopStream(HookState, 0))
    /\ lastRetry' = NoRetry
    /\ UNCHANGED <<uploadVars, streamVars, helperVars>>

\* retry() that replays the first sample request instead of the stored one
RetryCallReplayingFixedRequest ==
    /\ Len(sessions) < MaxStarts
    /\ IF lastConfigRef # NoConfig
       THEN /\ SetHook(startStream(HookState, "hello", 0))
            /\ lastRetry' = [prior |-> lastConfigRef, outcome |-> "started"]
       ELSE /\ SetHook(HookState)
            /\ lastRetry' = [prior |-> lastConfigRef, outcome |-> "returned"]
    /\ UNCHANGED <<uploadVars, streamVars, helperVars>>

\* the application calls retry(): startStream(lastConfigRef.current) when a config is stored,
\* otherwise the call returns without doing anything
RetryCall ==
    /\ Len(sessions) < MaxStarts
    /\ IF lastConfigRef # NoConfig
       THEN /\ SetHook(startStream(HookState, lastConfigRef, 0))
            /\ lastRetry' = [prior |-> lastConfigRef, outcome |-> "started"]
       ELSE /\ SetHook(HookState)
            /\ lastRetry' = [prior |-> lastConfigRef, outcome |-> "returned"]
    /\ UNCHANGED <<uploadVars, streamVars, helperVars>>

\* the application calls clearError()
ClearError ==
    /\ error
    /\ error' = FALSE
    /\ lastRetry' = NoRetry
    /\ UNCHANGED <<sessions, abortControllerRef, lastConfigRef, isStreaming, retryCount,
                   uploadVars, streamVars, helperVars>>

\* what the consumer's onChunk may do before it returns
ConsumerActs == {"return", "stopStream", "startStream", "throw"}

\* the delay of session i ends and mockStreaming makes its next onChunk call; the consumer
\* returns, calls stopStream() or startStream(config) first, or throws (caught by
\* mockStreaming, which then calls onError); then the next delay starts
ChunkDelivered(i, act, config) ==
    /\ i \in 1..Len(sessions)
    /\ sessions[i].state = "delay"
    /\ sessions[i].run.step < TotalChunks(sessions[i].run.message)
    /\ act = "startStream" => Len(sessions) < MaxStarts
    /\ LET sess == sessions[i]
           called == [sess EXCEPT !.run.step = sess.run.step + 1,
                                  !.run.afterAbort = sess.sig]
           h == [HookState EXCEPT !.sessions[i] = called]
       IN  CASE act = "return" -> SetHook(h)
             [] act = "stopStream" -> SetHook(stopStream(h, i))
             [] act = "startStream" -> SetHook(startStream(h, config, i))
             [] act = "throw" ->
                   SetHook(handleError([h EXCEPT !.sessions[i].state = "failed",
                                                 !.sessions[i].run = NoRun]))
    /\ lastRetry' = NoRetry
    /\ UNCHANGED <<uploadVars, streamVars, helperVars>>

\* the last delay of session i ends: onComplete()
SessionCompletes(i) ==
    /\ i \in 1..Len(sessions)
    /\ sessions[i].state = "delay"
    /\ sessions[i].run.step = TotalChunks(sessions[i].run.message)
    /\ SetHook(handleComplete([HookState EXCEPT !.sessions[i].state = "completed",
                                                !.sessions[i].run = NoRun]))
    /\ lastRetry' = NoRetry
    /\ UNCHANGED <<uploadVars, streamVars, helperVars>>

HookNext ==
    \/ \E config \in Messages : StartStreamCall(config)
    \/ StopStreamCall
    \/ RetryCall
    \/ ClearError
    \/ \E i \in 1..MaxStarts, act \in ConsumerActs :
          \E config \in (IF act = "startStream" THEN Messages ELSE {NoConfig}) :
              ChunkDelivered(i, act, config)
    \/ \E i \in 1..MaxStarts : SessionCompletes(i)

SpecHook == Init /\ [][HookNext]_vars

(***************************************************************************)
(* helpers.retry(fn, options): one invocation.  calls holds the outcome of *)
(* every fn() made so far, slept the duration of every sleep that has      *)
(* ended; the error thrown and the value returned by the k-th call are     *)
(* both written k.                                                         *)
(***************************************************************************)
RETRY_CONFIG == [MAX_RETRIES |-> 3, RETRY_DELAY |-> 1000, BACKOFF_MULTIPLIER |-> 2]

\* option values a caller may pass; the defaults of retry are those of RETRY_CONFIG
RetryCounts == 0..MaxRetryOption
RetryDelays == {0, 500, RETRY_CONFIG.RETRY_DELAY}
RetryMultipliers == {1, RETRY_CONFIG.BACKOFF_MULTIPLIER, 3}

\* Math.pow on natural numbers
RECURSIVE Pow(_, _)
Pow(b, e) == IF e = 0 THEN 1 ELSE b * Pow(b, e - 1)

\* the test of the for loop: the next fn() call, or `throw lastError` behind the loop
LoopTest(r) ==
    IF r.i < r.maxRetries THEN [r EXCEPT !.pc = "call"] ELSE [r EXCEPT !.pc = "rejected"]

\* retry(fn, {maxRetries: attempts, delay, backoffMultiplier}) is called
RetryHelperCalled(attempts, delay, backoffMultiplier) ==
    /\ retryRun.pc = "idle"
    /\ retryRun' = LoopTest([retryRun EXCEPT !.maxRetries = attempts, !.delay = delay,
                                             !.backoffMultiplier = backoffMultiplier,
                                             !.i = 0])
    /\ UNCHANGED <<uploadVars, streamVars, hookVars, historyVars, chunkRun>>

\* fn() resolves: return await fn()
FnResolves ==
    /\ retryRun.pc = "call"
    /\ retryRun' = [retryRun EXCEPT !.calls = Append(@, "resolved"),
                                    !.value = Len(retryRun.calls) + 1,
                                    !.pc = "resolved"]
    /\ UNCHANGED <<uploadVars, streamVars, hookVars, historyVars, chunkRun>>

\* a catch block that sleeps after every failed attempt, the last one too
FnRejectsAlwaysSleeping ==
    /\ retryRun.pc = "call"
    /\ retryRun' = [retryRun EXCEPT !.calls = Append(@, "rejected"),
                                    !.lastError = Len(retryRun.calls) + 1,
                                    !.pc = "sleep"]
    /\ UNCHANGED <<uploadVars, streamVars, hookVars, historyVars, chunkRun>>

\* fn() rejects: the catch block stores the error and starts the sleep, or after the last
\* attempt goes on to the loop test
FnRejects ==
    /\ retryRun.pc = "call"
    /\ LET caught == [retryRun EXCEPT !.calls = Append(@, "rejected"),
                                      !.lastError = Len(retryRun.calls) + 1]
       IN  retryRun' = IF caught.i < caught.maxRetries - 1
                       THEN [caught EXCEPT !.pc = "sleep"]
                       ELSE LoopTest([caught EXCEPT !.i = caught.i + 1])
    /\ UNCHANGED <<uploadVars, streamVars, hookVars, historyVars, chunkRun>>

\* the timer of sleep(delay * Math.pow(backoffMultiplier, i)) fires: i++ and the loop test
SleepEnds ==
    /\ retryRun.pc = "sleep"
    /\ retryRun' =
          LoopTest([retryRun EXCEPT
                       !.slept = Append(@, retryRun.delay
                                              * Pow(retryRun.backoffMultiplier, retryRun.i)),
                       !.i = retryRun.i + 1])
    /\ UNCHANGED <<uploadVars, streamVars, hookVars, historyVars, chunkRun>>

RetryNext ==
    \/ \E attempts \in RetryCounts, delay \in RetryDelays,
          backoffMultiplier \in RetryMultipliers :
             RetryHelperCalled(attempts, delay, backoffMultiplier)
    \/ FnResolves
    \/ FnRejects
    \/ SleepEnds

SpecRetry == Init /\ [][RetryNext]_vars

(***************************************************************************)
(* helpers.chunk(array, size): one invocation, one action for the loop     *)
(* test and one for the loop body.  chunks holds the first                 *)
(* array.length + 1 slices pushed, more than any call that returns         *)
(* pushes, and i is kept at -array.length when it falls below: from there  *)
(* on every slice is empty and the test stays true.                        *)
(***************************************************************************)
ChunkElements == {"a", "b"}
ChunkArrays == UNION { [1..n -> ChunkElements] : n \in 0..MaxArray }
ChunkSizes == (0 - 1)..(MaxArray + 1)

\* Array.prototype.slice(start, end): a negative index counts from the end, both are
\* clamped to 0..length, and the result is empty when start is not below end
SliceIndex(len, k) == IF k < 0 THEN (IF len + k < 0 THEN 0 ELSE len + k)
                      ELSE (IF k > len THEN len ELSE k)
JsSlice(array, start, end) ==
    LET from == SliceIndex(Len(array), start)
        to == SliceIndex(Len(array), end)
    IN  IF from < to THEN SubSeq(array, from + 1, to) ELSE << >>

\* chunk(array, size) is called: chunks = [], i = 0
ChunkCalled(array, size) ==
    /\ chunkRun.pc = "idle"
    /\ chunkRun' = [pc |-> "test", array |-> array, size |-> size, i |-> 0, chunks |-> << >>]
    /\ UNCHANGED <<uploadVars, streamVars, hookVars, historyVars, retryRun>>

\* i < array.length holds: the body is entered
ChunkTest ==
    /\ chunkRun.pc = "test"
    /\ chunkRun.i < Len(chunkRun.array)
    /\ chunkRun' = [chunkRun EXCEPT !.pc = "body"]
    /\ UNCHANGED <<uploadVars, streamVars, hookVars, historyVars, retryRun>>

\* chunks.push(array.slice(i, i + size)); i += size
ChunkBody ==
    /\ chunkRun.pc = "body"
    /\ LET c == chunkRun
           pushed == JsSlice(c.array, c.i, c.i + c.size)
           next == c.i + c.size
       IN  chunkRun' = [c EXCEPT
                           !.chunks = IF Len(@) <= Len(c.array) THEN Append(@, pushed) ELSE @,
                           !.i = IF next < 0 - Len(c.array) THEN 0 - Len(c.array) ELSE next,
                           !.pc = "test"]
    /\ UNCHANGED <<uploadVars, streamVars, hookVars, historyVars, retryRun>>

\* the loop test fails: return chunks
ChunkReturns ==
    /\ chunkRun.pc = "test"
    /\ ~(chunkRun.i < Len(chunkRun.array))
    /\ chunkRun' = [chunkRun EXCEPT !.pc = "returned"]
    /\ UNCHANGED <<uploadVars, streamVars, hookVars, historyVars, retryRun>>

ChunkNext ==
    \/ \E array \in ChunkArrays, size \in ChunkSizes : ChunkCalled(array, size)
    \/ ChunkTest
    \/ ChunkBody
    \/ ChunkReturns

\* the loop is synchronous code: once called it keeps running
SpecChunk ==
    /\ Init /\ [][ChunkNext]_vars
    /\ WF_vars(ChunkTest) /\ WF_vars(ChunkBody) /\ WF_vars(ChunkReturns)

(***************************************************************************)
(* useHistory with enableStorage on and no initialThreads, over            *)
(* localStorage.  A thread is modelled by its id, title and created_at;    *)
(* the number in an id stands for its Date.now() and random part.          *)
(***************************************************************************)
DefaultTitle == "New Chat"

\* titles a caller may pass; the empty one also stands for a missing argument
ThreadTitles == {"", "Plan", "Notes"}
ThreadIds == 1..(MaxThreads + 1)

\* JSON.stringify(threads): a Date becomes its ISO string, a string stays one
StringifyThreads(list) ==
    [stored |-> TRUE,
     text |-> [k \in 1..Len(list) |->
                  [list[k] EXCEPT !.created_at = <<"string", list[k].created_at[2]>>]]]

\* JSON.parse of the stored text: dates come back as strings
ParseThreads(item) == item.text

\* loadThreadsFromStorage(): stored ? JSON.parse(stored) : null
loadThreadsFromStorage(item) ==
    IF item.stored THEN [isNull |-> FALSE, value |-> ParseThreads(item)]
    ELSE [isNull |-> TRUE, value |-> << >>]

\* initialThreads default
initialThreads == << >>

\* the effect on [threads, ...]: saveThreadsToStorage(threads) when threads.length > 0
SaveEffect ==
    /\ saveDue
    /\ chatThreads' = IF Len(threads) > 0 THEN StringifyThreads(threads) ELSE chatThreads
    /\ saveDue' = FALSE
    /\ UNCHANGED <<threads, threadCounter, uploadVars, streamVars, hookVars, retryRun, chunkRun>>

\* createThread(title): the new thread is put in front
CreateThread(title) ==
    LET threadId == threadCounter + 1
        newThread == [id |-> threadId,
                      title |-> IF title = "" THEN DefaultTitle ELSE title,
                      created_at |-> <<"Date", threadId>>]
    IN  /\ threadCounter < MaxThreads
        /\ threadCounter' = threadCounter + 1
        /\ threads' = <<newThread>> \o threads
        /\ saveDue' = TRUE
        /\ UNCHANGED <<chatThreads, uploadVars, streamVars, hookVars, retryRun, chunkRun>>

\* deleteThread(id): prev.filter(thread => thread.id !== id), always a new array
DeleteThread(id) ==
    /\ threads' = SelectSeq(threads, LAMBDA thread : thread.id # id)
    /\ saveDue' = TRUE
    /\ UNCHANGED <<chatThreads, threadCounter, uploadVars, streamVars, hookVars, retryRun,
                   chunkRun>>

\* updateThreadTitle(id, title): prev.map(...), always a new array
UpdateThreadTitle(id, title) ==
    /\ threads' = [k \in 1..Len(threads) |->
                     IF threads[k].id = id THEN [threads[k] EXCEPT !.title = title]
                     ELSE threads[k]]
    /\ saveDue' = TRUE
    /\ UNCHANGED <<chatThreads, threadCounter, uploadVars, streamVars, hookVars, retryRun,
                   chunkRun>>

\* the page is loaded again and useHistory mounts: stored || initialThreads, and the
\* effect of the first render is due
Mount ==
    /\ ~saveDue
    /\ LET stored == loadThreadsFromStorage(chatThreads)
       IN  threads' = IF stored.isNull THEN initialThreads ELSE stored.value
    /\ saveDue' = TRUE
    /\ UNCHANGED <<chatThreads, threadCounter, uploadVars, streamVars, hookVars, retryRun,
                   chunkRun>>

HistoryNext ==
    \/ SaveEffect
    \/ \E title \in ThreadTitles : CreateThread(title)
    \/ \E id \in ThreadIds : DeleteThread(id)
    \/ \E id \in ThreadIds, title \in ThreadTitles : UpdateThreadTitle(id, title)
    \/ Mount

SpecHistory == Init /\ [][HistoryNext]_vars

(***************************************************************************)
(* Properties of the upload manager, checked under Spec                    *)
(***************************************************************************)

\* an entry in failed status: not uploading, with an error
IsFailed(files, id) ==
    \E i \in 1..Len(files) :
        files[i].uploadId = id /\ ~files[i].isUploading /\ files[i].uploadError # NoError

IsUploadingEntry(files, id) ==
    \E i \in 1..Len(files) : files[i].uploadId = id /\ files[i].isUploading

\* the size and type rule as the documentation states it: at most 5 MiB, one of the image types
MeetsDocumentedRule(file) ==
    /\ file.size <= 5 * 1024 * 1024
    /\ file.type \in {"image/jpeg", "image/jpg", "image/png", "image/webp"}

\* C1: the number of entries in uploadedFiles never exceeds maxFiles, whatever calls were
\* made, two uploadFiles calls between two renders included.
C1_LengthNeverExceedsMax == Len(uploadedFiles) <= maxFiles

\* C6: a retryUpload(id) step on an entry that is not in failed status (uploading, succeeded
\* or absent) leaves the batch and the set of upload tasks as they were.
C6_RetryOfNonFailedIsNoOp ==
    [][ (lastCall'.op = "retryUpload" /\ retryCalls' # retryCalls
            /\ ~IsFailed(uploadedFiles, lastCall'.uploadId))
        => (uploadedFiles' = uploadedFiles /\ tasks' = tasks /\ aborted' = aborted) ]_vars

\* C7 as claimed: a cancelUpload(id) step on an uploading entry keeps the entry in the batch
\* (not uploading any more) and leaves the batch length unchanged.
C7_CancelKeepsEntry ==
    [][ (lastCall'.op = "cancelUpload" /\ IsUploadingEntry(uploadedFiles, lastCall'.uploadId))
        => (/\ Len(uploadedFiles') = Len(uploadedFiles)
            /\ HasId(uploadedFiles', lastCall'.uploadId)
            /\ ~IsUploadingEntry(uploadedFiles', lastCall'.uploadId)) ]_vars

\* C7 as amended: a cancelUpload(id) step on an uploading entry aborts the entry's controller
\* and removes the entry from the batch: the batch is one shorter, holds no entry with that
\* id (so none in a cancelled state), and every other entry is kept unchanged, in order.
C7_CancelRemovesEntry ==
    [][ (lastCall'.op = "cancelUpload" /\ IsUploadingEntry(uploadedFiles, lastCall'.uploadId))
        => (/\ Len(uploadedFiles') = Len(uploadedFiles) - 1
            /\ ~HasId(uploadedFiles', lastCall'.uploadId)
            /\ uploadedFiles' =
                   SelectSeq(uploadedFiles, LAMBDA f : f.uploadId # lastCall'.uploadId)
            /\ Find(uploadedFiles, lastCall'.uploadId).ctl \in aborted'
            /\ tasks' = tasks) ]_vars

\* a cancelUpload call has just removed an entry whose upload task is still running
C7_Witness ==
    /\ lastCall.op = "cancelUpload"
    /\ lastCall.uploadId \in 1..uploadCounter
    /\ ~HasId(uploadedFiles, lastCall.uploadId)
    /\ \E i \in 1..Len(tasks) :
          tasks[i].uploadId = lastCall.uploadId /\ tasks[i].ctl \in aborted

\* C8: an uploadFiles call given N valid files while M slots remain, 0 <= M < N, adds exactly
\* the first M valid files and reports the capacity error for the rest through onUploadError.
C8_OverflowIsReported ==
    lastCall.op = "uploadFiles" =>
        LET valid == SelectSeq(lastCall.files, MeetsDocumentedRule)
            M == maxFiles - lastCall.before
        IN  (0 <= M /\ M < Len(valid)) =>
                /\ Len(lastCall.accepted) = M
                /\ \A i \in 1..M : lastCall.accepted[i].file = valid[i]
                /\ \E i \in 1..Len(lastCall.reported) : lastCall.reported[i] = "MAX_FILES_EXCEEDED"

RECURSIVE TerminatedLines(_, _)
TerminatedLines(text, current) ==
    IF text = << >> THEN << >>
    ELSE IF Head(text) = NL THEN <<current>> \o TerminatedLines(Tail(text), << >>)
    ELSE TerminatedLines(Tail(text), Append(current, Head(text)))

IsRecord(line) == JsonParse(CleanLine(line)).ok

\* one onChunk per newline-terminated parseable line, in stream order
ExpectedChunks(text) ==
    LET records == SelectSeq(TerminatedLines(text, << >>), IsRecord)
    IN  [i \in 1..Len(records) |-> OnChunk(JsonParse(CleanLine(records[i])).type)]

Count(seq, x) == Cardinality({i \in 1..Len(seq) : seq[i] = x})

\* a terminated line that is not blank and does not parse
IsBadLine(line) == Trim(line) # << >> /\ ~IsRecord(line)

HasBadLine(text) ==
    \E i \in 1..Len(TerminatedLines(text, << >>)) : IsBadLine(TerminatedLines(text, << >>)[i])

\* C3: however the stream was cut into fragments, the onChunk calls made so far are exactly
\* the records of the newline-terminated parseable lines of the text received so far, in
\* stream order, and once onComplete is called they are those of the whole stream.
C3_ChunksIndependentOfFragments ==
    /\ Chunks(events) = ExpectedChunks(SubSeq(stream, 1, pos))
    /\ Count(events, OnComplete) > 0 => Chunks(events) = ExpectedChunks(stream)

\* a fragment has ended inside a line, after an earlier record was delivered
C3_Witness ==
    /\ sPc = "read"
    /\ buffer # << >>
    /\ pos < Len(stream)
    /\ stream[pos + 1] # NL
    /\ Len(Chunks(events)) >= 1

\* C5: a transport failure reaches the consumer's onError only when the retry budget is
\* exhausted; with two failed attempts and a third that succeeds, the run ends with
\* onComplete called and onError never called.
C5_RetriedUntilSuccess ==
    /\ (~sigAborted /\ Count(events, OnError) > 0) => Count(outcomes, "fail") >= maxRetries
    /\ (~sigAborted /\ sPc = "returned" /\ outcomes = <<"fail", "fail", "ok">>)
          => (Count(events, OnComplete) = 1 /\ Count(events, OnError) = 0)
    /\ (~sigAborted /\ sPc = "returned") => outcomes[Len(outcomes)] = "ok"

\* C10: a terminated line that fails to parse causes no callback and ends nothing: onError is
\* called only for failed fetches, a stream answered at the first attempt leaves the retry
\* loop untouched (attempt 0, no backoff), and a stream holding such a line that is read to
\* its end has delivered every record, the ones after the bad line too, and then onComplete.
C10_BadLineSkipped ==
    /\ Count(events, OnError) =
          Count(outcomes, "fail") + (IF sPc = "exhausted" THEN 1 ELSE 0)
    /\ outcomes = <<"ok">> => (attempt = 0 /\ elapsed = 0 /\ delayMs = initialDelay)
    /\ (HasBadLine(stream) /\ sPc = "returned" /\ ~sigAborted
            /\ outcomes # << >> /\ outcomes[Len(outcomes)] = "ok")
          => /\ events[Len(events)] = OnComplete
             /\ Count(events, OnComplete) = 1
             /\ Chunks(events) = ExpectedChunks(stream)

\* a stream whose first line does not parse and whose second line is a record was read to
\* its end at the first attempt: the record was delivered and onComplete called
C10_Witness ==
    /\ sPc = "returned"
    /\ outcomes = <<"ok">>
    /\ Len(TerminatedLines(stream, << >>)) >= 2
    /\ IsBadLine(TerminatedLines(stream, << >>)[1])
    /\ IsRecord(TerminatedLines(stream, << >>)[2])
    /\ Len(Chunks(events)) >= 1
    /\ events[Len(events)] = OnComplete

(***************************************************************************)
(* Properties of useStreaming over mockStreaming, checked under SpecHook   *)
(***************************************************************************)

Running(i) == sessions[i].state = "delay"

\* C2: once stopStream() or abort() has returned for a session, at most one more onChunk is
\* delivered for it: a session whose signal is aborted and which has already received one
\* onChunk since then receives no other.
C2_AtMostOneChunkAfterAbort ==
    [][\A i \in 1..Len(sessions) :
          (Running(i) /\ sessions[i].sig /\ sessions[i].run.afterAbort)
             => sessions'[i].run.step <= sessions[i].run.step]_vars

\* C4 as stated: a startStream call made while a session is open fails at once, so the new
\* request never gets a callback, and the call leaves the open session alone.
C4_StartWhileOpenFails ==
    /\ \A i \in 1..Len(sessions) :
          sessions[i].startedWhileOpen
             => sessions[i].run.step = 0 /\ sessions[i].state \notin {"completed", "failed"}
    /\ \A i \in 1..Len(sessions) :
          (i < Len(sessions) /\ sessions[i + 1].startedWhileOpen) => ~sessions[i].sig

\* C4: a startStream call made while a session is open aborts that session's controller and
\* starts the new session: every running session but the newest has an aborted signal, the
\* controller held by the hook is the newest session's, and a running session whose signal
\* is not aborted is the one the hook holds.
C4_StartReplacesOpenSession ==
    /\ abortControllerRef \in {0, Len(sessions)}
    /\ \A i \in 1..Len(sessions) :
          (Running(i) /\ ~sessions[i].sig) => abortControllerRef = i

\* startStream was called while the first session waited in a delay: that session ended
\* without a callback of its own, and the new session has received chunks
C4_Witness ==
    /\ Len(sessions) >= 2
    /\ sessions[1].state = "aborted"
    /\ sessions[2].startedWhileOpen
    /\ Running(2)
    /\ ~sessions[2].sig
    /\ sessions[2].run.step >= 2

\* C11: a cancel made by the user never surfaces as an error: once stopStream() has aborted
\* the signal of the only session started so far, that session never ends through onError,
\* the hook's error is not set, the retry count is not raised and isStreaming stays false.
C11_CancelNeverSurfacesAsError ==
    [][(Len(sessions) = 1 /\ sessions[1].sig /\ Len(sessions') = 1)
          => /\ sessions[1].state # "failed" => sessions'[1].state # "failed"
             /\ ~error => ~error'
             /\ retryCount' <= retryCount
             /\ ~isStreaming']_vars

HandleCompleteLeavesHookIdle ==
    [][\A i \in 1..Len(sessions) :
          /\ (Running(i) /\ sessions'[i].state = "completed")
                => (~isStreaming' /\ ~error' /\ retryCount' = 0)
          /\ sessions[i].state = "completed"
                => (sessions'[i].state = "completed" /\ sessions'[i].run = NoRun)]_vars

\* C13 as stated: when attempts 1 and 2 have failed, the backoff that has elapsed when
\* attempt 3 starts is at least initialDelay * multiplier^2.
C13_BackoffAtLeastSquare ==
    (attempt = 2 /\ sPc = "fetch") => elapsed >= initialDelay * multiplier * multiplier

\* C13: the loop waits initialDelay after the first failed attempt and
\* min(initialDelay * multiplier, maxDelay) after the second, so the backoff that has elapsed
\* when attempt 3 starts is the sum of the two; the delay variable then holds
\* min(initialDelay * multiplier^2, maxDelay), which is never waited for.
C13_BackoffIsSumOfDelays ==
    /\ attempt = 0 => (elapsed = 0 /\ delayMs = initialDelay)
    /\ attempt = 1 => (elapsed = initialDelay
                          /\ delayMs = MinOf(initialDelay * multiplier, maxDelay))
    /\ attempt >= 2 =>
          /\ elapsed = initialDelay + MinOf(initialDelay * multiplier, maxDelay)
          /\ delayMs = MinOf(initialDelay * multiplier * multiplier, maxDelay)
    /\ attempt <= maxRetries

\* two attempts have failed and the third one starts
C13_Witness ==
    /\ attempt = 2
    /\ sPc = "fetch"
    /\ outcomes = <<"fail", "fail">>
    /\ elapsed = initialDelay + initialDelay * multiplier

InRange(index) == index >= 0 /\ index < Len(uploadedFiles)

\* C15: deleteFile(index) can be called in every state with any index and completes; for an
\* index in range it removes exactly the entry at that position, whatever its status, keeps
\* every other entry unchanged and in order, and aborts the entry's controller when the
\* entry was uploading (no other controller); for any other index nothing changes.
C15_DeleteFileTotal ==
    \A index \in Indexes :
        /\ ENABLED DeleteFile(index)
        /\ ~ENABLED (/\ DeleteFile(index)
                     /\ ~(/\ tasks' = tasks
                          /\ IF InRange(index)
                             THEN /\ Len(uploadedFiles') = Len(uploadedFiles) - 1
                                  /\ \A k \in 1..Len(uploadedFiles') :
                                        uploadedFiles'[k] =
                                           uploadedFiles[IF k <= index THEN k ELSE k + 1]
                                  /\ aborted' = IF uploadedFiles[index + 1].isUploading
                                                THEN aborted \cup {uploadedFiles[index + 1].ctl}
                                                ELSE aborted
                             ELSE uploadedFiles' = uploadedFiles /\ aborted' = aborted))

\* of two entries the first, which had finished, is gone and its controller was not aborted;
\* the second is still there, uploading
C15_Witness ==
    /\ uploadCounter = 2
    /\ Len(uploadedFiles) = 1
    /\ uploadedFiles[1].uploadId = 2
    /\ uploadedFiles[1].isUploading
    /\ \A i \in 1..Len(tasks) : tasks[i].uploadId = 2
    /\ aborted = {}

\* C16: once the controller of an upload is aborted (deleteFile, cancelUpload or
\* clearAllFiles on the uploading entry) its transfer makes no further step: no onProgress
\* and no onUploadError is called for that upload again.
C16_NoCallbackAfterAbort ==
    [][(tasks # << >> /\ Head(tasks).ctl \in aborted)
          => ~(TaskProgress \/ TaskFail \/ TaskSuccess)]_vars

\* a progress, success or failure event of the upload task whose timer fires next
TaskEvent == TaskProgress \/ TaskFail \/ TaskSuccess

\* C17: an event of A's upload task changes A's entry only: the batch keeps its length and
\* order, every entry with another uploadId keeps all its fields, A keeps its file, id and
\* controller, no controller is aborted, and every other running task stays as it was
\* (a failure of A takes only A's task away).
C17_TaskEventTouchesOwnEntryOnly ==
    [][TaskEvent =>
          LET A == Head(tasks).uploadId
          IN  /\ Len(uploadedFiles') = Len(uploadedFiles)
              /\ \A k \in 1..Len(uploadedFiles) :
                    IF uploadedFiles[k].uploadId # A
                    THEN uploadedFiles'[k] = uploadedFiles[k]
                    ELSE /\ uploadedFiles'[k].file = uploadedFiles[k].file
                         /\ uploadedFiles'[k].uploadId = A
                         /\ uploadedFiles'[k].ctl = uploadedFiles[k].ctl
              /\ aborted' = aborted
              /\ \A j \in 2..Len(tasks) : tasks'[j - 1] = tasks[j]
              /\ Len(tasks') \in {Len(tasks), Len(tasks) - 1}]_vars

\* the upload of the first of two entries has failed while the second entry is still
\* uploading, without an error, its task still running
C17_Witness ==
    /\ Len(uploadedFiles) = 2
    /\ uploadedFiles[1].uploadId # uploadedFiles[2].uploadId
    /\ ~uploadedFiles[1].isUploading
    /\ uploadedFiles[1].uploadError # NoError
    /\ uploadedFiles[2].isUploading
    /\ uploadedFiles[2].uploadError = NoError
    /\ uploadedFiles[2].uploadProgress > 0
    /\ \E j \in 1..Len(tasks) : tasks[j].uploadId = uploadedFiles[2].uploadId

\* C19: from one state to the next the progress of an entry that is uploading in both stays
\* within 0..100 and does not decrease, whatever step is taken in between (a progress
\* callback of any task, retryUpload, deleteFile, cancelUpload).
C19_ProgressMonotoneWhileUploading ==
    [][\A i \in 1..Len(uploadedFiles), j \in 1..Len(uploadedFiles') :
          (/\ uploadedFiles'[j].uploadId = uploadedFiles[i].uploadId
           /\ uploadedFiles[i].isUploading
           /\ uploadedFiles'[j].isUploading)
             => /\ uploadedFiles'[j].uploadProgress \in 0..ProgressMax
                /\ uploadedFiles'[j].uploadProgress >= uploadedFiles[i].uploadProgress]_vars

\* C20: in every reachable state no entry has both a CDN URL and an upload error, and no
\* entry that is uploading has an upload error.
C20_UrlAndErrorExclusive ==
    \A i \in 1..Len(uploadedFiles) :
        /\ ~(uploadedFiles[i].cdnUrl # NoUrl /\ uploadedFiles[i].uploadError # NoError)
        /\ uploadedFiles[i].isUploading => uploadedFiles[i].uploadError = NoError

(***************************************************************************)
(* Properties of the upload manager with a transport that always succeeds, *)
(* checked under SpecTransfers                                             *)
(***************************************************************************)

Succeeded(f) ==
    /\ ~f.isUploading
    /\ f.uploadProgress = ProgressMax
    /\ f.cdnUrl # NoUrl
    /\ f.uploadError = NoError

DistinctUrls ==
    \A i, j \in 1..Len(uploadedFiles) :
        (i # j /\ uploadedFiles[i].cdnUrl # NoUrl /\ uploadedFiles[j].cdnUrl # NoUrl)
           => uploadedFiles[i].cdnUrl # uploadedFiles[j].cdnUrl

Closed(i) == sessions[i].state # "delay" \/ sessions[i].sig

\* C21: a session that has completed, failed or been cancelled receives no further callback:
\* from then on it makes no onChunk call and reaches no other end, and while a session whose
\* signal is not aborted runs, no step of an older session changes isStreaming or error.
C21_TerminalStateIsFinal ==
    [][\A i \in 1..Len(sessions) :
          Closed(i) =>
             /\ sessions'[i].run.step <= sessions[i].run.step
             /\ sessions[i].state # "delay" => sessions'[i].state = sessions[i].state
             /\ sessions'[i].state \notin {"completed", "failed"}
                   \/ sessions'[i].state = sessions[i].state
             /\ (/\ i < Len(sessions)
                 /\ Len(sessions') = Len(sessions)
                 /\ sessions'[i] # sessions[i]
                 /\ Running(Len(sessions)) /\ ~sessions[Len(sessions)].sig)
                   => isStreaming' = isStreaming /\ error' = error]_vars

(***************************************************************************)
(* Error records and the end of the stream, checked under SpecStream       *)
(***************************************************************************)

\* C22: an error record is terminal for its session: after the onChunk call that hands over
\* a chunk of type error no other chunk is delivered and onComplete is not called, and a run
\* that has returned without an abort has called onError after that chunk.
C22_ErrorChunkIsTerminal ==
    \A k \in 1..Len(events) :
        events[k] = OnChunk("e") =>
           /\ \A j \in (k + 1)..Len(events) : events[j].cb \notin {"onChunk", "onComplete"}
           /\ (sPc = "returned" /\ ~sigAborted)
                 => \E j \in (k + 1)..Len(events) : events[j] = OnError

(***************************************************************************)
(* Completion of an uploadFiles call, identifiers and removed entries,     *)
(* checked under Spec                                                      *)
(***************************************************************************)

\* the uploadIds of a sequence of entries, in order
IdsOf(files) == [i \in 1..Len(files) |-> files[i].uploadId]

\* the step ends the upload task at the head of the queue, and no other task of the
\* uploadFiles call that started it is still running
LastTaskOfCallEnds ==
    /\ tasks # << >>
    /\ tasks' = Tail(tasks)
    /\ Head(tasks).batch # << >>
    /\ \A i \in 2..Len(tasks) : tasks[i].batch # Head(tasks).batch

\* C23: when the last upload task of an uploadFiles call ends, onUploadComplete is called
\* once with the entries of that call that have succeeded (cdnUrl set, no error, not
\* uploading), in order and each with its cdnUrl, if there is such an entry; otherwise it is
\* not called.
C23_UploadCompleteOncePerCall ==
    [][LastTaskOfCallEnds =>
          LET ids == {Head(tasks).batch[i].uploadId : i \in 1..Len(Head(tasks).batch)}
              succeeded == SelectSeq(uploadedFiles',
                                     LAMBDA f : /\ f.uploadId \in ids
                                                /\ f.cdnUrl # NoUrl
                                                /\ f.uploadError = NoError
                                                /\ ~f.isUploading)
          IN  IF succeeded # << >>
              THEN /\ Len(uploadCompleteCalls') = Len(uploadCompleteCalls) + 1
                   /\ SubSeq(uploadCompleteCalls', 1, Len(uploadCompleteCalls))
                         = uploadCompleteCalls
                   /\ LET files == uploadCompleteCalls'[Len(uploadCompleteCalls')]
                      IN  /\ IdsOf(files) = IdsOf(succeeded)
                          /\ \A i \in 1..Len(files) : files[i].cdnUrl # NoUrl
              ELSE uploadCompleteCalls' = uploadCompleteCalls]_vars

C26_RetryHelperContract ==
    LET r == retryRun
        n == Len(r.calls)
    IN  /\ n <= r.maxRetries
        /\ \A k \in 1..(n - 1) : r.calls[k] = "rejected"
        /\ r.slept = [k \in 1..Len(r.slept) |-> r.delay * Pow(r.backoffMultiplier, k - 1)]
        /\ r.pc = "call" => Len(r.slept) = n
        /\ r.pc = "sleep" => Len(r.slept) = n - 1 /\ n < r.maxRetries
        /\ r.pc = "resolved" =>
              /\ r.calls[n] = "resolved"
              /\ r.value = n
              /\ Len(r.slept) = n - 1
        /\ (r.pc = "rejected" /\ r.maxRetries >= 1) =>
              /\ n = r.maxRetries
              /\ r.calls[n] = "rejected"
              /\ r.lastError = n
              /\ Len(r.slept) = r.maxRetries - 1

\* with the values of RETRY_CONFIG three attempts have failed: retry has slept 1000 and 2000
\* ms and rejected with the third error
C26_Witness ==
    /\ retryRun.pc = "rejected"
    /\ retryRun.maxRetries = RETRY_CONFIG.MAX_RETRIES
    /\ retryRun.calls = <<"rejected", "rejected", "rejected">>
    /\ retryRun.slept = <<1000, 2000>>
    /\ retryRun.lastError = 3

(***************************************************************************)
(* Removed entries and late task events, checked under Spec                *)
(***************************************************************************)

\* identifiers given out whose entry is no longer in the batch: uploadFiles appends every
\* entry in the step that gives out its identifier, so a missing one has been removed
Removed == {id \in 1..uploadCounter : ~HasId(uploadedFiles, id)}

\* C27: once an entry has been removed from the batch (deleteFile, cancelUpload or
\* clearAllFiles) no step puts an entry with its uploadId into the batch again, and a
\* progress, success or failure event of its still-running upload task leaves the batch
\* exactly as it was.
C27_RemovedEntryStaysRemoved ==
    [][/\ \A id \in Removed : ~HasId(uploadedFiles', id)
       /\ (tasks # << >> /\ Head(tasks).uploadId \in Removed /\ TaskEvent)
             => uploadedFiles' = uploadedFiles]_vars

\* an entry was removed while it was uploading (its first controller is aborted), its upload
\* task has ended since, and the batch holds another entry, which is still uploading
C27_Witness ==
    \E id \in Removed :
       /\ [kind |-> "upload", n |-> id] \in aborted
       /\ \A j \in 1..Len(tasks) : tasks[j].uploadId # id
       /\ Len(uploadedFiles) >= 1
       /\ uploadedFiles[1].isUploading
       /\ uploadedFiles[1].uploadProgress > 0

(***************************************************************************)
(* The text after the last newline, checked under SpecStream               *)
(***************************************************************************)

\* position of the last newline of a text, 0 when it has none
LastNewline(text) ==
    LET at == {k \in 1..Len(text) : text[k] = NL}
    IN  IF at = {} THEN 0 ELSE CHOOSE k \in at : \A j \in at : j <= k

\* the text up to its last newline, and what follows it
Terminated(text) == SubSeq(text, 1, LastNewline(text))
Remainder(text) == SubSeq(text, LastNewline(text) + 1, Len(text))

\* C28: at end-of-stream the text received after the last newline is still in the line
\* buffer and is dropped with it: the callbacks made are those of the newline-terminated
\* lines alone, followed by onComplete, so a final record without a newline causes no
\* onChunk.
C28_TailDiscardedAtEnd ==
    (sPc = "returned" /\ ~sigAborted /\ outcomes # << >> /\ outcomes[Len(outcomes)] = "ok")
       => /\ buffer = Remainder(stream)
          /\ SelectSeq(events, LAMBDA e : e # OnError)
                = LinesEvents(CompleteLines(Split(Terminated(stream)))) \o <<OnComplete>>

\* a stream of one terminated error record and one error record without its newline was
\* read to its end: one onChunk, then onComplete
C28_Witness ==
    /\ sPc = "returned"
    /\ outcomes = <<"ok">>
    /\ Remainder(stream) = <<"{", "e", "}">>
    /\ Terminated(stream) = <<"d", "a", "t", "a", ":", " ", "{", "e", "}", NL>>
    /\ events = <<OnChunk("e"), OnComplete>>

(***************************************************************************)
(* Persistence of the thread list, checked under SpecHistory               *)
(***************************************************************************)

\* ids and titles of a thread list, in order
IdsAndTitles(list) == [k \in 1..Len(list) |-> <<list[k].id, list[k].title>>]

\* what a fresh mount would restore from the current localStorage
Restored ==
    LET stored == loadThreadsFromStorage(chatThreads)
    IN  IF stored.isNull THEN initialThreads ELSE stored.value

\* C29: whenever the save effect has run after the last change, the list a fresh mount
\* restores from localStorage has the ids and titles of the hook's threads in the same
\* order, the empty list after the last thread was deleted included.
C29_StorageMirrorsThreads ==
    ~saveDue => IdsAndTitles(Restored) = IdsAndTitles(threads)

(***************************************************************************)
(* Properties of helpers.chunk, checked under SpecChunk                    *)
(***************************************************************************)
RECURSIVE Concat(_)
Concat(lists) == IF lists = << >> THEN << >> ELSE Head(lists) \o Concat(Tail(lists))

\* C30: chunk(array, size) returns for every array and every integer size, and what it
\* returns are consecutive slices whose concatenation is the array, each of exactly size
\* elements but the last, which has between 1 and size (no slice for an empty array).
C30_ChunkTerminatesWithSlices ==
    /\ (chunkRun.pc \in {"test", "body"}) ~> (chunkRun.pc = "returned")
    /\ [](chunkRun.pc = "returned" =>
             LET n == Len(chunkRun.chunks)
             IN  /\ Concat(chunkRun.chunks) = chunkRun.array
                 /\ \A k \in 1..(n - 1) : Len(chunkRun.chunks[k]) = chunkRun.size
                 /\ n > 0 => Len(chunkRun.chunks[n]) \in 1..chunkRun.size
                 /\ chunkRun.array = << >> => n = 0)
====
